---- MODULE Spec2Model ----
(***************************************************************************)
(* Model of the cart-checkout kit: the Cart Store (cartReducer and the     *)
(* CartProvider restore/persist effects) and the CheckoutForm submission   *)
(* handler.  Strings are sequences of one-character strings; amounts are   *)
(* integers in units of 1/10000 of a dollar.                               *)
(***************************************************************************)
EXTENDS Integers, Sequences, FiniteSets, TLC

VARIABLES
  items,        \* state.items: the ordered line list
  isOpen,       \* state.isOpen
  isLoading,    \* state.isLoading
  storage,      \* value held by localStorage under storageKey
  lastWrite,    \* outcome of the most recent run of the persist effect
  writeFailures,\* number of setItem calls that threw
  restored,     \* TRUE once the mount (hydrate) effect has run
  loadingCmds,  \* commands dispatched so far while the mount effect has not run
  last,         \* the most recent event: its kind and its outcome
  run,          \* the current run of AddItem calls carrying one product
  shipping,     \* CheckoutForm: the shipping address fields
  billing,      \* CheckoutForm: the billing address fields and sameAsShipping
  notes,        \* CheckoutForm: the order notes
  isSubmitting, \* CheckoutForm: the submission latch
  errors,       \* CheckoutForm: error key -> message
  pending,      \* onCreateOrder calls that have not settled yet
  navigated,    \* TRUE once redirectToPayment has left the page
  edits,        \* number of field edits made in the form
  otherStorage, \* value held by localStorage under the key not in use
  selectorQty   \* AddToCartButton: the quantity state of the selector

storeVars == <<items, isOpen, isLoading, storage, lastWrite, writeFailures,
               restored, loadingCmds, last, run>>

formVars == <<shipping, billing, notes, isSubmitting, errors, pending, navigated, edits>>

uiVars == <<otherStorage, selectorQty>>

vars == <<storeVars, formVars, uiVars>>

----------------------------------------------------------------------------
(* Bounds *)

MaxQty == 2            \* line quantities and quantity arguments are kept
MaxDeficit == 1        \* within -MaxDeficit..MaxQty
MaxLoadingCmds == 1    \* commands issued by children before the mount effect
MaxWriteFailures == 1  \* setItem calls that throw in one session
MaxEdits == 1          \* field edits made in the checkout form
MaxPending == 2        \* order-creation calls in flight at once

InputQtys == (0 - MaxDeficit) .. MaxQty
QtyInRange(q) == (0 - MaxDeficit) <= q /\ q <= MaxQty

----------------------------------------------------------------------------
(* Products, item keys and lines *)

NoVariant == [present |-> FALSE, id |-> <<>>]
VariantB == [present |-> TRUE, id |-> <<"b">>]

ProdA == [id |-> <<"a">>, price |-> 299900, variant |-> NoVariant]
ProdAB == [id |-> <<"a">>, price |-> 299900, variant |-> VariantB]
ProdDash == [id |-> <<"a", "-", "b">>, price |-> 100000, variant |-> NoVariant]

Products == {ProdA, ProdAB, ProdDash}

generateItemKey(product) ==
  IF product.variant.present
    THEN product.id \o <<"-">> \o product.variant.id
    ELSE product.id

ItemKeys == {generateItemKey(p) : p \in Products}

Line(product, quantity) ==
  [product |-> product, quantity |-> quantity, itemKey |-> generateItemKey(product)]

\* items.findIndex(pred-on-key): the first index whose line has the key, 0 if none
FindIndex(its, key) ==
  IF \E i \in 1..Len(its) : its[i].itemKey = key
    THEN CHOOSE i \in 1..Len(its) :
           /\ its[i].itemKey = key
           /\ \A j \in 1..(i - 1) : its[j].itemKey # key
    ELSE 0

\* items.filter(item => item.itemKey !== key)
RECURSIVE FilterOut(_, _)
FilterOut(its, key) ==
  IF its = <<>> THEN <<>>
  ELSE IF Head(its).itemKey = key
    THEN FilterOut(Tail(its), key)
    ELSE <<Head(its)>> \o FilterOut(Tail(its), key)

----------------------------------------------------------------------------
(* cartReducer *)

InitialState == [items |-> <<>>, isOpen |-> FALSE, isLoading |-> TRUE]

Action(type) ==
  [product |-> ProdA, quantity |-> 0, itemKey |-> <<>>, type |-> type,
   payload |-> <<>>, flag |-> FALSE]

\* ADD_ITEM that appends without looking for the key
ReduceAddItemAlwaysAppend(state, product, quantity) ==
  [state EXCEPT !.items =
     Append(state.items,
            [product |-> product, quantity |-> quantity,
             itemKey |-> generateItemKey(product)])]

\* ADD_ITEM that overwrites the quantity of an existing line
ReduceAddItemReplace(state, product, quantity) ==
  LET itemKey == generateItemKey(product)
      existingIndex == FindIndex(state.items, itemKey)
  IN IF existingIndex >= 1
       THEN [state EXCEPT !.items =
               [state.items EXCEPT ![existingIndex] =
                  [@ EXCEPT !.quantity = quantity]]]
       ELSE [state EXCEPT !.items =
               Append(state.items,
                      [product |-> product, quantity |-> quantity, itemKey |-> itemKey])]

\* ADD_ITEM that moves a merged line to the end of the list
ReduceAddItemMovesLast(state, product, quantity) ==
  LET itemKey == generateItemKey(product)
      existingIndex == FindIndex(state.items, itemKey)
  IN IF existingIndex >= 1
       THEN [state EXCEPT !.items =
               Append(FilterOut(state.items, itemKey),
                      [state.items[existingIndex] EXCEPT !.quantity = @ + quantity])]
       ELSE [state EXCEPT !.items =
               Append(state.items,
                      [product |-> product, quantity |-> quantity, itemKey |-> itemKey])]

ReduceAddItem(state, product, quantity) ==
  LET itemKey == generateItemKey(product)
      existingIndex == FindIndex(state.items, itemKey)
  IN IF existingIndex >= 1
       THEN [state EXCEPT !.items =
               [state.items EXCEPT ![existingIndex] =
                  [@ EXCEPT !.quantity = @ + quantity]]]
       ELSE [state EXCEPT !.items =
               Append(state.items,
                      [product |-> product, quantity |-> quantity, itemKey |-> itemKey])]

\* REMOVE_ITEM by items.splice(findIndex, 1): index -1 takes the last line
ReduceRemoveItemSplice(state, itemKey) ==
  LET index == FindIndex(state.items, itemKey)
      at == IF index >= 1 THEN index ELSE Len(state.items)
  IN [state EXCEPT !.items =
        SubSeq(state.items, 1, at - 1) \o SubSeq(state.items, at + 1, Len(state.items))]

ReduceRemoveItem(state, itemKey) ==
  [state EXCEPT !.items = FilterOut(state.items, itemKey)]

\* UPDATE_QUANTITY testing quantity < 0: zero is stored, not removed
ReduceUpdateQuantityKeepsZero(state, itemKey, quantity) ==
  IF quantity < 0
    THEN [state EXCEPT !.items = FilterOut(state.items, itemKey)]
    ELSE [state EXCEPT !.items =
            [i \in 1..Len(state.items) |->
               IF state.items[i].itemKey = itemKey
                 THEN [state.items[i] EXCEPT !.quantity = quantity]
                 ELSE state.items[i]]]

\* UPDATE_QUANTITY that takes the line out and pushes the updated line last
ReduceUpdateQuantityMovesLast(state, itemKey, quantity) ==
  LET index == FindIndex(state.items, itemKey) IN
  IF quantity <= 0 \/ index = 0
    THEN [state EXCEPT !.items = FilterOut(state.items, itemKey)]
    ELSE [state EXCEPT !.items =
            Append(FilterOut(state.items, itemKey),
                   [state.items[index] EXCEPT !.quantity = quantity])]

ReduceUpdateQuantity(state, itemKey, quantity) ==
  IF quantity <= 0
    THEN [state EXCEPT !.items = FilterOut(state.items, itemKey)]
    ELSE [state EXCEPT !.items =
            [i \in 1..Len(state.items) |->
               IF state.items[i].itemKey = itemKey
                 THEN [state.items[i] EXCEPT !.quantity = quantity]
                 ELSE state.items[i]]]

\* CLEAR_CART that returns initialState
ReduceClearCartToInitial(state) == InitialState

ReduceClearCart(state) == [state EXCEPT !.items = <<>>]

\* HYDRATE that keeps the lines already in memory in front of the payload
ReduceHydrateAppends(state, payload) ==
  [state EXCEPT !.items = state.items \o payload, !.isLoading = FALSE]

ReduceHydrate(state, payload) ==
  [state EXCEPT !.items = payload, !.isLoading = FALSE]

\* a reducer whose default case returns initialState
cartReducerDefaultResets(state, action) ==
  CASE action.type = "ADD_ITEM" ->
         ReduceAddItem(state, action.product, action.quantity)
    [] action.type = "REMOVE_ITEM" -> ReduceRemoveItem(state, action.itemKey)
    [] action.type = "UPDATE_QUANTITY" ->
         ReduceUpdateQuantity(state, action.itemKey, action.quantity)
    [] action.type = "CLEAR_CART" -> ReduceClearCart(state)
    [] action.type = "OPEN_CART" -> [state EXCEPT !.isOpen = TRUE]
    [] action.type = "CLOSE_CART" -> [state EXCEPT !.isOpen = FALSE]
    [] action.type = "TOGGLE_CART" -> [state EXCEPT !.isOpen = ~state.isOpen]
    [] action.type = "SET_LOADING" -> [state EXCEPT !.isLoading = action.flag]
    [] action.type = "HYDRATE" -> ReduceHydrate(state, action.payload)
    [] OTHER -> InitialState

cartReducer(state, action) ==
  CASE action.type = "ADD_ITEM" ->
         ReduceAddItem(state, action.product, action.quantity)
    [] action.type = "REMOVE_ITEM" -> ReduceRemoveItem(state, action.itemKey)
    [] action.type = "UPDATE_QUANTITY" ->
         ReduceUpdateQuantity(state, action.itemKey, action.quantity)
    [] action.type = "CLEAR_CART" -> ReduceClearCart(state)
    [] action.type = "OPEN_CART" -> [state EXCEPT !.isOpen = TRUE]
    [] action.type = "CLOSE_CART" -> [state EXCEPT !.isOpen = FALSE]
    [] action.type = "TOGGLE_CART" -> [state EXCEPT !.isOpen = ~state.isOpen]
    [] action.type = "SET_LOADING" -> [state EXCEPT !.isLoading = action.flag]
    [] action.type = "HYDRATE" -> ReduceHydrate(state, action.payload)
    [] OTHER -> state

\* UPDATE_QUANTITY editing the array in place: no new reference
NewItemsRefNoUpdate == {"ADD_ITEM", "REMOVE_ITEM", "CLEAR_CART", "HYDRATE"}

\* the reducer cases that build a new items array (a new reference)
NewItemsRef == {"ADD_ITEM", "REMOVE_ITEM", "UPDATE_QUANTITY", "CLEAR_CART", "HYDRATE"}

----------------------------------------------------------------------------
(* JSON.stringify / JSON.parse of the line list, and the stored text *)

\* one line as the JSON object text; an undefined variant is omitted
EncodeLine(line) ==
  <<line.product.id, line.product.price,
    IF line.product.variant.present THEN <<line.product.variant.id>> ELSE <<>>,
    line.quantity, line.itemKey>>

DecodeLine(t) ==
  [product |-> [id |-> t[1], price |-> t[2],
                variant |-> IF t[3] = <<>> THEN NoVariant
                            ELSE [present |-> TRUE, id |-> t[3][1]]],
   quantity |-> t[4], itemKey |-> t[5]]

Absent == [kind |-> "absent", body |-> <<>>]      \* getItem returns null
EmptyText == [kind |-> "empty", body |-> <<>>]    \* the string ""
Garbage == [kind |-> "garbage", body |-> <<>>]    \* text JSON.parse rejects

Stringify(its) ==
  [kind |-> "array", body |-> [i \in 1..Len(its) |-> EncodeLine(its[i])]]

\* JSON.parse: throws on text that is not JSON
ParseThrows(stored) == stored.kind # "array"
Parse(stored) == [i \in 1..Len(stored.body) |-> DecodeLine(stored.body[i])]

\* the truthiness test `if (stored)`: null and "" are falsy
Truthy(stored) == stored.kind \notin {"absent", "empty"}

----------------------------------------------------------------------------
(* CartProvider: the two effects *)

\* the persist effect: skipped while loading, setItem may throw (caught, warned)
\* the persist effect without its isLoading test
PersistEffectAlways(state, stored) ==
  {[storage |-> Stringify(state.items), lastWrite |-> "ok"],
   [storage |-> stored, lastWrite |-> "failed"]}

PersistEffect(state, stored) ==
  IF ~state.isLoading
    THEN {[storage |-> Stringify(state.items), lastWrite |-> "ok"],
          [storage |-> stored, lastWrite |-> "failed"]}
    ELSE {[storage |-> stored, lastWrite |-> "skipped"]}

\* the console.warn written by the persist effect's catch
Failed(o) == IF o.lastWrite = "failed" THEN 1 ELSE 0

\* the action dispatched by the mount effect for a stored value and a read
\* that succeeds (readOk) or throws
\* the mount effect with a catch block that only warns
HydrateEffectSilentCatch(stored, readOk) ==
  IF ~readOk THEN Action("NONE")
  ELSE IF Truthy(stored)
    THEN IF ParseThrows(stored)
           THEN Action("NONE")
           ELSE [Action("HYDRATE") EXCEPT !.payload = Parse(stored)]
    ELSE [Action("SET_LOADING") EXCEPT !.flag = FALSE]

HydrateEffect(stored, readOk) ==
  IF ~readOk THEN [Action("SET_LOADING") EXCEPT !.flag = FALSE]
  ELSE IF Truthy(stored)
    THEN IF ParseThrows(stored)
           THEN [Action("SET_LOADING") EXCEPT !.flag = FALSE]
           ELSE [Action("HYDRATE") EXCEPT !.payload = Parse(stored)]
    ELSE [Action("SET_LOADING") EXCEPT !.flag = FALSE]

ReadOutcome(stored, readOk) ==
  IF ~readOk THEN "readfail"
  ELSE IF ~Truthy(stored) THEN "absent"
  ELSE IF ParseThrows(stored) THEN "unparseable"
  ELSE "hydrated"

State == [items |-> items, isOpen |-> isOpen, isLoading |-> isLoading]

\* a dispatch that drops the new state when the write throws
DispatchRollsBack(action) ==
  LET s == cartReducer(State, action)
      rerun == action.type \in NewItemsRef \/ s.isLoading # isLoading
  IN /\ \A i \in 1..Len(s.items) : QtyInRange(s.items[i].quantity)
     /\ IF rerun
          THEN \E o \in PersistEffect(s, storage) :
                 /\ writeFailures + Failed(o) <= MaxWriteFailures
                 /\ storage' = o.storage
                 /\ lastWrite' = o.lastWrite
                 /\ writeFailures' = writeFailures + Failed(o)
                 /\ items' = IF Failed(o) = 1 THEN items ELSE s.items
                 /\ isOpen' = IF Failed(o) = 1 THEN isOpen ELSE s.isOpen
                 /\ isLoading' = IF Failed(o) = 1 THEN isLoading ELSE s.isLoading
          ELSE /\ UNCHANGED <<storage, lastWrite, writeFailures>>
               /\ items' = s.items
               /\ isOpen' = s.isOpen
               /\ isLoading' = s.isLoading

\* dispatch + re-render + the persist effect when one of its dependencies changed
Dispatch(action) ==
  LET s == cartReducer(State, action)
      rerun == action.type \in NewItemsRef \/ s.isLoading # isLoading
  IN /\ \A i \in 1..Len(s.items) : QtyInRange(s.items[i].quantity)
     /\ items' = s.items
     /\ isOpen' = s.isOpen
     /\ isLoading' = s.isLoading
     /\ IF rerun
          THEN \E o \in PersistEffect(s, storage) :
                 /\ writeFailures + Failed(o) <= MaxWriteFailures
                 /\ storage' = o.storage
                 /\ lastWrite' = o.lastWrite
                 /\ writeFailures' = writeFailures + Failed(o)
          ELSE UNCHANGED <<storage, lastWrite, writeFailures>>

----------------------------------------------------------------------------
(* Events *)

\* kinds of event: INIT, COMMAND (a command method of the store), SET_LOADING
\* and HYDRATE (the restore), SUBMIT, FORM_EDIT, ORDER_CREATED, ORDER_FAILED
Event(type) == [type |-> type, outcome |-> "none"]

NoRun == [product |-> ProdA, active |-> FALSE, sum |-> 0, calls |-> 0]

\* a command issued through the context; before the mount effect only a
\* bounded number of them
Command ==
  /\ ~navigated
  /\ restored \/ loadingCmds < MaxLoadingCmds
  /\ loadingCmds' = IF restored THEN loadingCmds ELSE loadingCmds + 1
  /\ UNCHANGED restored
  /\ UNCHANGED <<formVars, uiVars>>

\* addItem(product, quantity = 1): the default applies to a missing argument
AddItemQuantity(arg) == IF arg.given THEN arg.value ELSE 1

\* addItem(product) and addItem(product, v)
DefaultQty == [given |-> FALSE, value |-> 0]
QtyArgs == {DefaultQty} \cup {[given |-> TRUE, value |-> v] : v \in InputQtys}

AddItem(product, arg) ==
  LET quantity == AddItemQuantity(arg) IN
  /\ Command
  /\ Dispatch([Action("ADD_ITEM") EXCEPT !.product = product, !.quantity = quantity])
  /\ last' = Event("COMMAND")
  /\ run' = IF run.active /\ run.product = product
              THEN [run EXCEPT !.sum = @ + quantity, !.calls = 2]
            ELSE IF FindIndex(items, generateItemKey(product)) = 0
              THEN [product |-> product, active |-> TRUE, sum |-> quantity, calls |-> 1]
            ELSE NoRun

RemoveItem(itemKey) ==
  /\ Command
  /\ Dispatch([Action("REMOVE_ITEM") EXCEPT !.itemKey = itemKey])
  /\ last' = Event("COMMAND")
  /\ run' = NoRun

UpdateQuantity(itemKey, quantity) ==
  /\ Command
  /\ Dispatch([Action("UPDATE_QUANTITY") EXCEPT !.itemKey = itemKey, !.quantity = quantity])
  /\ last' = Event("COMMAND")
  /\ run' = NoRun

ClearCart ==
  /\ Command
  /\ Dispatch(Action("CLEAR_CART"))
  /\ last' = Event("COMMAND")
  /\ run' = NoRun

OpenCart ==
  /\ Command
  /\ Dispatch(Action("OPEN_CART"))
  /\ last' = Event("COMMAND")
  /\ UNCHANGED run

CloseCart ==
  /\ Command
  /\ Dispatch(Action("CLOSE_CART"))
  /\ last' = Event("COMMAND")
  /\ UNCHANGED run

ToggleCart ==
  /\ Command
  /\ Dispatch(Action("TOGGLE_CART"))
  /\ last' = Event("COMMAND")
  /\ UNCHANGED run

\* the mount effect: read, parse, dispatch HYDRATE or SET_LOADING(false)
Restore ==
  /\ ~restored
  /\ \E readOk \in BOOLEAN :
       LET action == HydrateEffect(storage, readOk) IN
       /\ Dispatch(action)
       /\ last' = [type |-> action.type, outcome |-> ReadOutcome(storage, readOk)]
       /\ run' = IF action.type = "HYDRATE" THEN NoRun ELSE run
  /\ restored' = TRUE
  /\ loadingCmds' = 0
  /\ UNCHANGED <<formVars, uiVars>>

----------------------------------------------------------------------------
(* Pricing library *)

FreeShippingThreshold == 500000
FlatShippingFee == 59900
TaxPercent == 8

RECURSIVE calculateSubtotal(_)
calculateSubtotal(its) ==
  IF its = <<>> THEN 0
  ELSE Head(its).product.price * Head(its).quantity + calculateSubtotal(Tail(its))

RECURSIVE calculateItemCount(_)
calculateItemCount(its) ==
  IF its = <<>> THEN 0 ELSE Head(its).quantity + calculateItemCount(Tail(its))

\* free shipping only above the threshold
calculateShippingAboveOnly(subtotal) ==
  IF subtotal > FreeShippingThreshold THEN 0 ELSE FlatShippingFee

calculateShipping(subtotal) ==
  IF subtotal >= FreeShippingThreshold THEN 0 ELSE FlatShippingFee

calculateTax(subtotal) == (subtotal * TaxPercent) \div 100

calculateTotals(its) ==
  LET subtotal == calculateSubtotal(its)
      shippingCost == calculateShipping(subtotal)
      tax == calculateTax(subtotal)
  IN [subtotal |-> subtotal, shippingCost |-> shippingCost, tax |-> tax,
      total |-> subtotal + shippingCost + tax]

----------------------------------------------------------------------------
(* Validation library, over strings as sequences of characters *)

Digits == {"0", "1", "2", "3", "4", "5", "6", "7", "8", "9"}
Whitespace == {" "}

AllIn(s, from, to, chars) == \A i \in from..to : s[i] \in chars
NoneIn(s, from, to, chars) == \A i \in from..to : s[i] \notin chars

\* /^[^\s@]+@[^\s@]+\.[^\s@]+$/
isValidEmail(email) ==
  \E i \in 1..Len(email), j \in 1..Len(email) :
    /\ 1 < i /\ i + 1 < j /\ j < Len(email)
    /\ email[i] = "@" /\ email[j] = "."
    /\ NoneIn(email, 1, i - 1, Whitespace \cup {"@"})
    /\ NoneIn(email, i + 1, j - 1, Whitespace \cup {"@"})
    /\ NoneIn(email, j + 1, Len(email), Whitespace \cup {"@"})

\* /^[\d\s\-+()]{7,}$/
isValidPhone(phone) ==
  /\ Len(phone) >= 7
  /\ AllIn(phone, 1, Len(phone), Digits \cup Whitespace \cup {"-", "+", "(", ")"})

\* US: /^\d{5}(-\d{4})?$/ ; any other country: length >= 3
isValidPostalCode(postalCode, country) ==
  IF country = <<"U", "S">>
    THEN \/ Len(postalCode) = 5 /\ AllIn(postalCode, 1, 5, Digits)
         \/ /\ Len(postalCode) = 10
            /\ AllIn(postalCode, 1, 5, Digits)
            /\ postalCode[6] = "-"
            /\ AllIn(postalCode, 7, 10, Digits)
    ELSE Len(postalCode) >= 3

\* String.prototype.trim
RECURSIVE TrimStart(_)
TrimStart(s) ==
  IF s # <<>> /\ Head(s) \in Whitespace THEN TrimStart(Tail(s)) ELSE s

RECURSIVE TrimEnd(_)
TrimEnd(s) ==
  IF s # <<>> /\ s[Len(s)] \in Whitespace THEN TrimEnd(SubSeq(s, 1, Len(s) - 1)) ELSE s

Trim(s) == TrimEnd(TrimStart(s))

----------------------------------------------------------------------------
(* CheckoutForm *)

initialAddress ==
  [state |-> <<>>, email |-> <<>>, phone |-> <<>>, postalCode |-> <<>>,
   country |-> <<"U", "S">>, firstName |-> <<>>, lastName |-> <<>>,
   address1 |-> <<>>, address2 |-> <<>>, city |-> <<>>]

AddressFields == DOMAIN initialAddress

\* { ...address, sameAsShipping: flag }
WithSameAsShipping(address, flag) ==
  [f \in AddressFields \cup {"sameAsShipping"} |->
     IF f = "sameAsShipping" THEN flag ELSE address[f]]

initialBilling == WithSameAsShipping(initialAddress, TRUE)

ShowBillingAddress == TRUE
ShowNotes == TRUE

NoErrors == [k \in {} |-> ""]

\* an object built from (key, message) entries with distinct keys
ErrorMap(entries) ==
  [k \in {e[1] : e \in entries} |-> (CHOOSE e \in entries : e[1] = k)[2]]

Required(prefix, address, field, message) ==
  IF Trim(address[field]) = <<>> THEN {<<prefix \o field, message>>} ELSE {}

EmailErrors(prefix, address) ==
  IF Trim(address.email) = <<>> THEN {<<prefix \o "email", "Email is required">>}
  ELSE IF ~isValidEmail(address.email)
    THEN {<<prefix \o "email", "Please enter a valid email">>}
  ELSE {}

PostalCodeErrors(prefix, address) ==
  IF Trim(address.postalCode) = <<>>
    THEN {<<prefix \o "postalCode", "Postal code is required">>}
  ELSE IF ~isValidPostalCode(address.postalCode, address.country)
    THEN {<<prefix \o "postalCode", "Please enter a valid postal code">>}
  ELSE {}

PhoneErrors(prefix, address) ==
  IF address.phone # <<>> /\ ~isValidPhone(address.phone)
    THEN {<<prefix \o "phone", "Please enter a valid phone number">>}
    ELSE {}

\* validateForm checking the billing fields whatever sameAsShipping says
validateFormBillingAlways(sh, bi) ==
  ErrorMap(
    Required("shipping.", sh, "firstName", "First name is required")
    \cup Required("shipping.", sh, "lastName", "Last name is required")
    \cup EmailErrors("shipping.", sh)
    \cup PhoneErrors("shipping.", sh)
    \cup Required("shipping.", sh, "address1", "Address is required")
    \cup Required("shipping.", sh, "city", "City is required")
    \cup Required("shipping.", sh, "state", "State is required")
    \cup PostalCodeErrors("shipping.", sh)
    \cup Required("billing.", bi, "firstName", "First name is required")
    \cup Required("billing.", bi, "lastName", "Last name is required")
    \cup EmailErrors("billing.", bi)
    \cup Required("billing.", bi, "address1", "Address is required")
    \cup Required("billing.", bi, "city", "City is required")
    \cup Required("billing.", bi, "state", "State is required")
    \cup PostalCodeErrors("billing.", bi))

\* the newErrors object validateForm builds
validateForm(sh, bi) ==
  ErrorMap(
    Required("shipping.", sh, "firstName", "First name is required")
    \cup Required("shipping.", sh, "lastName", "Last name is required")
    \cup EmailErrors("shipping.", sh)
    \cup PhoneErrors("shipping.", sh)
    \cup Required("shipping.", sh, "address1", "Address is required")
    \cup Required("shipping.", sh, "city", "City is required")
    \cup Required("shipping.", sh, "state", "State is required")
    \cup PostalCodeErrors("shipping.", sh)
    \cup (IF ShowBillingAddress /\ ~bi.sameAsShipping
            THEN Required("billing.", bi, "firstName", "First name is required")
                 \cup Required("billing.", bi, "lastName", "Last name is required")
                 \cup EmailErrors("billing.", bi)
                 \cup Required("billing.", bi, "address1", "Address is required")
                 \cup Required("billing.", bi, "city", "City is required")
                 \cup Required("billing.", bi, "state", "State is required")
                 \cup PostalCodeErrors("billing.", bi)
            ELSE {}))

FormError(message) == [k \in {"form"} |-> message]

\* delete newErrors[key]; delete newErrors.form
WithoutErrors(errs, key) ==
  [k \in DOMAIN errs \ {key, "form"} |-> errs[k]]

\* a submit button disabled for the empty cart only
SubmitDisabledWhenEmpty == Len(items) = 0

\* the submit button's disabled attribute
SubmitDisabled == isSubmitting \/ Len(items) = 0

\* arguments whose billing address is always the billing state as entered
CreateOrderCallBillingAsEntered ==
  [items |-> items,
   formData |-> [shipping |-> shipping,
                 billing |-> billing,
                 notes |-> IF ShowNotes THEN notes ELSE <<>>],
   totals |-> calculateTotals(items)]

\* the arguments of onCreateOrder(formData, items, totals)
CreateOrderCall ==
  [items |-> items,
   formData |-> [shipping |-> shipping,
                 billing |-> IF billing.sameAsShipping
                               THEN WithSameAsShipping(shipping, TRUE)
                               ELSE billing,
                 notes |-> IF ShowNotes THEN notes ELSE <<>>],
   totals |-> calculateTotals(items)]

\* handleSubmit without its empty-cart test
handleSubmitNoEmptyCheck ==
  LET newErrors == validateForm(shipping, billing) IN
  /\ ~navigated
  /\ last' = Event("SUBMIT")
  /\ UNCHANGED <<items, isOpen, isLoading, storage, lastWrite, writeFailures,
                 restored, loadingCmds, run>>
  /\ UNCHANGED <<shipping, billing, notes, navigated, edits>>
  /\ UNCHANGED uiVars
  /\ IF DOMAIN newErrors # {}
       THEN /\ errors' = newErrors
            /\ UNCHANGED <<isSubmitting, pending>>
       ELSE /\ isSubmitting' = TRUE
            /\ errors' = NoErrors
            /\ pending' = Append(pending, CreateOrderCall)

\* handleSubmit up to its await
handleSubmit ==
  LET newErrors == validateForm(shipping, billing) IN
  /\ ~navigated
  /\ last' = Event("SUBMIT")
  /\ UNCHANGED <<items, isOpen, isLoading, storage, lastWrite, writeFailures,
                 restored, loadingCmds, run>>
  /\ UNCHANGED <<shipping, billing, notes, navigated, edits>>
  /\ UNCHANGED uiVars
  /\ IF DOMAIN newErrors # {}
       THEN /\ errors' = newErrors
            /\ UNCHANGED <<isSubmitting, pending>>
     ELSE IF Len(items) = 0
       THEN /\ errors' = FormError("Your cart is empty")
            /\ UNCHANGED <<isSubmitting, pending>>
     ELSE /\ isSubmitting' = TRUE
          /\ errors' = NoErrors
          /\ pending' = Append(pending, CreateOrderCall)

\* a submit event raised through the submit button
Submit ==
  /\ ~SubmitDisabled
  /\ handleSubmit

\* a submit event dispatched on the form itself (form.requestSubmit()), which
\* the disabled attribute of the button does not hold back
RequestSubmit ==
  /\ Len(pending) < MaxPending
  /\ handleSubmit

RemoveAt(seq, i) == SubSeq(seq, 1, i - 1) \o SubSeq(seq, i + 1, Len(seq))

\* new URL(config.url) throws for a GET redirect to a relative url
RedirectConfigs == {[method |-> m, absolute |-> a] : m \in {"GET", "POST"}, a \in BOOLEAN}
RedirectThrows(config) == config.method = "GET" /\ ~config.absolute

\* the collaborator resolved: onOrderCreated, clearCart, redirectToPayment,
\* and the catch block when the redirect throws
CreateOrderResolved(i, config) ==
  /\ ~navigated
  /\ i \in 1..Len(pending)
  /\ pending' = RemoveAt(pending, i)
  /\ Dispatch(Action("CLEAR_CART"))
  /\ run' = NoRun
  /\ last' = [type |-> "ORDER_CREATED",
              outcome |-> IF RedirectThrows(config) THEN "redirect-threw" ELSE "redirected"]
  /\ IF RedirectThrows(config)
       THEN /\ errors' = FormError("Invalid URL")
            /\ isSubmitting' = FALSE
            /\ navigated' = FALSE
       ELSE /\ navigated' = TRUE
            /\ UNCHANGED <<errors, isSubmitting>>
  /\ UNCHANGED <<restored, loadingCmds, shipping, billing, notes, edits>>
  /\ UNCHANGED uiVars

\* the collaborator resolved and the onOrderCreated callback threw: the catch
\* block runs before clearCart and redirectToPayment are reached
OrderCreatedCallbackThrew(i) ==
  /\ ~navigated
  /\ i \in 1..Len(pending)
  /\ pending' = RemoveAt(pending, i)
  /\ errors' = FormError("onOrderCreated failed")
  /\ isSubmitting' = FALSE
  /\ last' = [type |-> "ORDER_CREATED", outcome |-> "callback-threw"]
  /\ UNCHANGED <<items, isOpen, isLoading, storage, lastWrite, writeFailures,
                 restored, loadingCmds, run>>
  /\ UNCHANGED <<shipping, billing, notes, navigated, edits>>
  /\ UNCHANGED uiVars

\* what the collaborator rejects with: an Error, or some other value
Rejections ==
  {[message |-> "Payment declined", isError |-> TRUE],
   [message |-> "", isError |-> FALSE]}

\* a catch block that leaves isSubmitting set
CreateOrderRejectedKeepsLatch(i, err) ==
  LET error == IF err.isError THEN err
               ELSE [message |-> "Failed to create order", isError |-> TRUE] IN
  /\ ~navigated
  /\ i \in 1..Len(pending)
  /\ pending' = RemoveAt(pending, i)
  /\ errors' = FormError(error.message)
  /\ last' = [type |-> "ORDER_FAILED", outcome |-> "rejected"]
  /\ UNCHANGED <<items, isOpen, isLoading, storage, lastWrite, writeFailures,
                 restored, loadingCmds, run>>
  /\ UNCHANGED <<shipping, billing, notes, navigated, edits, isSubmitting>>
  /\ UNCHANGED uiVars

\* a catch block that also empties the cart
CreateOrderRejectedClearsCart(i, err) ==
  LET error == IF err.isError THEN err
               ELSE [message |-> "Failed to create order", isError |-> TRUE] IN
  /\ ~navigated
  /\ i \in 1..Len(pending)
  /\ pending' = RemoveAt(pending, i)
  /\ errors' = FormError(error.message)
  /\ isSubmitting' = FALSE
  /\ last' = [type |-> "ORDER_FAILED", outcome |-> "rejected"]
  /\ Dispatch(Action("CLEAR_CART"))
  /\ run' = NoRun
  /\ UNCHANGED <<restored, loadingCmds>>
  /\ UNCHANGED <<shipping, billing, notes, navigated, edits>>
  /\ UNCHANGED uiVars

\* the collaborator rejected: the catch block
CreateOrderRejected(i, err) ==
  LET error == IF err.isError THEN err
               ELSE [message |-> "Failed to create order", isError |-> TRUE] IN
  /\ ~navigated
  /\ i \in 1..Len(pending)
  /\ pending' = RemoveAt(pending, i)
  /\ errors' = FormError(error.message)
  /\ isSubmitting' = FALSE
  /\ last' = [type |-> "ORDER_FAILED", outcome |-> "rejected"]
  /\ UNCHANGED <<items, isOpen, isLoading, storage, lastWrite, writeFailures,
                 restored, loadingCmds, run>>
  /\ UNCHANGED <<shipping, billing, notes, navigated, edits>>
  /\ UNCHANGED uiVars

FormEdit ==
  /\ ~navigated
  /\ edits < MaxEdits
  /\ edits' = edits + 1
  /\ last' = Event("FORM_EDIT")
  /\ UNCHANGED <<items, isOpen, isLoading, storage, lastWrite, writeFailures,
                 restored, loadingCmds, run>>
  /\ UNCHANGED <<isSubmitting, pending, navigated>>
  /\ UNCHANGED uiVars

updateShipping(field, value) ==
  /\ FormEdit
  /\ shipping' = [shipping EXCEPT ![field] = value]
  /\ errors' = WithoutErrors(errors, "shipping." \o field)
  /\ UNCHANGED <<billing, notes>>

updateBilling(field, value) ==
  /\ FormEdit
  /\ billing' = [billing EXCEPT ![field] = value]
  /\ errors' = WithoutErrors(errors, "billing." \o field)
  /\ UNCHANGED <<shipping, notes>>

setNotes(value) ==
  /\ FormEdit
  /\ notes' = value
  /\ UNCHANGED <<shipping, billing, errors>>

----------------------------------------------------------------------------
(* Stored values a new session may find *)

\* lists a previous session of the store persisted
OwnLists ==
  {<<>>,
   <<Line(ProdA, 1)>>,
   <<Line(ProdDash, MaxQty)>>,
   <<Line(ProdAB, 1), Line(ProdA, MaxQty)>>}

InitStored ==
  {Absent, EmptyText, Garbage} \cup {Stringify(l) : l \in OwnLists}

\* one AddToCartButton constructed with its default props (quantity = 1), and
\* nothing stored under a second storage key
UiInit ==
  /\ otherStorage = Absent
  /\ selectorQty = 1

\* the CheckoutForm as constructed
FormInit ==
  /\ shipping = initialAddress
  /\ billing = initialBilling
  /\ notes = <<>>
  /\ isSubmitting = FALSE
  /\ errors = NoErrors
  /\ pending = <<>>
  /\ navigated = FALSE
  /\ edits = 0

\* the store as constructed, before the mount effect has run
StoreInit ==
  /\ items = InitialState.items
  /\ isOpen = InitialState.isOpen
  /\ isLoading = InitialState.isLoading
  /\ storage \in InitStored
  /\ lastWrite = "none"
  /\ writeFailures = 0
  /\ restored = FALSE
  /\ loadingCmds = 0
  /\ last = Event("INIT")
  /\ run = NoRun
  /\ FormInit

Init ==
  /\ StoreInit
  /\ UiInit

Next ==
  \/ \E p \in Products, a \in QtyArgs : AddItem(p, a)
  \/ \E k \in ItemKeys : RemoveItem(k)
  \/ \E k \in ItemKeys, q \in InputQtys : UpdateQuantity(k, q)
  \/ ClearCart
  \/ OpenCart
  \/ CloseCart
  \/ ToggleCart
  \/ Restore

Spec == Init /\ [][Next]_vars

----------------------------------------------------------------------------
(* The checkout page: a restored store and a checkout form *)

FilledAddress ==
  [state |-> <<"Y">>, email |-> <<"a", "@", "b", ".", "c">>, phone |-> <<>>,
   postalCode |-> <<"1", "2", "3", "4", "5">>, country |-> <<"U", "S">>,
   firstName |-> <<"J">>, lastName |-> <<"D">>, address1 |-> <<"1">>,
   address2 |-> <<>>, city |-> <<"X">>]

\* values typed into a field
FieldInputs(field) ==
  CASE field = "email" -> {<<>>, <<"a", "@", "b", ".", "c">>, <<"a", "b">>}
    [] field = "phone" -> {<<>>, <<"5", "5", "5", "-", "1", "2", "3", "4">>, <<"1", "2">>}
    [] field = "postalCode" -> {<<>>, <<"1", "2", "3", "4", "5">>, <<"1", "2", "3", "4">>}
    [] field = "country" -> {<<"U", "S">>, <<"C", "A">>}
    [] OTHER -> {<<>>, <<" ">>, <<"J">>}

\* the fields edited on the checkout page
EditedFields == {"email"}

CheckoutProducts == {ProdA}

CheckoutCarts == {<<>>, <<Line(ProdA, 1)>>}

\* the session after a restore that hydrated the cart, the form as constructed
\* or with the shipping address filled in
CheckoutInit ==
  /\ items \in CheckoutCarts
  /\ isOpen = FALSE
  /\ isLoading = FALSE
  /\ storage = Stringify(items)
  /\ lastWrite = "ok"
  /\ writeFailures = 0
  /\ restored = TRUE
  /\ loadingCmds = 0
  /\ last = [type |-> "HYDRATE", outcome |-> "hydrated"]
  /\ run = NoRun
  /\ \/ shipping = initialAddress /\ billing = initialBilling
     \/ shipping = FilledAddress /\ billing = WithSameAsShipping(FilledAddress, TRUE)
  /\ notes = <<>>
  /\ isSubmitting = FALSE
  /\ errors = NoErrors
  /\ pending = <<>>
  /\ navigated = FALSE
  /\ edits = 0
  /\ UiInit

CheckoutNext ==
  \/ \E p \in CheckoutProducts : AddItem(p, DefaultQty)
  \/ \E k \in ItemKeys : RemoveItem(k)
  \/ \E k \in ItemKeys, q \in InputQtys : UpdateQuantity(k, q)
  \/ \E f \in EditedFields : \E v \in FieldInputs(f) : updateShipping(f, v)
  \/ \E f \in EditedFields : \E v \in FieldInputs(f) : updateBilling(f, v)
  \/ \E b \in BOOLEAN : updateBilling("sameAsShipping", b)
  \/ \E v \in {<<>>, <<"n">>} : setNotes(v)
  \/ Submit
  \/ \E i \in 1..Len(pending), c \in RedirectConfigs : CreateOrderResolved(i, c)
  \/ \E i \in 1..Len(pending), e \in Rejections : CreateOrderRejected(i, e)
  \/ \E i \in 1..Len(pending) : OrderCreatedCallbackThrew(i)

CheckoutSpec == CheckoutInit /\ [][CheckoutNext]_vars

----------------------------------------------------------------------------
(* The checkout form driven by submit events on the form, over a range of
   field values *)

VariedShippingFields == {"firstName", "email", "phone", "postalCode", "country"}

\* the billing section has no phone input
VariedBillingFields == {"firstName", "email", "postalCode", "country"}

FieldValues(fields) == UNION {{<<f, v>> : v \in FieldInputs(f)} : f \in fields}

\* a Canadian address with a postal code that is not a US ZIP code
ForeignAddress ==
  [FilledAddress EXCEPT !.country = <<"C", "A">>, !.postalCode = <<"1", "2", "3", "4">>]

AddressInputs(fields) ==
  {initialAddress, FilledAddress, ForeignAddress}
    \cup {[FilledAddress EXCEPT ![fv[1]] = fv[2]] : fv \in FieldValues(fields)}

\* the carts the form page is opened with
FormCarts == CheckoutCarts \cup {<<Line(ProdAB, 1), Line(ProdA, MaxQty)>>}

FormPageInit ==
  /\ items \in FormCarts
  /\ isOpen = FALSE
  /\ isLoading = FALSE
  /\ storage = Stringify(items)
  /\ lastWrite = "ok"
  /\ writeFailures = 0
  /\ restored = TRUE
  /\ loadingCmds = 0
  /\ last = [type |-> "HYDRATE", outcome |-> "hydrated"]
  /\ run = NoRun
  /\ shipping \in AddressInputs(VariedShippingFields)
  /\ \E a \in AddressInputs(VariedBillingFields), b \in BOOLEAN :
       billing = WithSameAsShipping(a, b)
  /\ notes = <<>>
  /\ isSubmitting = FALSE
  /\ errors = NoErrors
  /\ pending = <<>>
  /\ navigated = FALSE
  /\ edits = 0
  /\ UiInit

FormPageNext ==
  \/ RequestSubmit
  \/ \E k \in ItemKeys : RemoveItem(k)
  \/ \E i \in 1..Len(pending), c \in RedirectConfigs : CreateOrderResolved(i, c)
  \/ \E i \in 1..Len(pending), e \in Rejections : CreateOrderRejected(i, e)
  \/ \E i \in 1..Len(pending) : OrderCreatedCallbackThrew(i)

FormSpec == FormPageInit /\ [][FormPageNext]_vars

----------------------------------------------------------------------------
(* The store driven action by action, each step recording in `last` the
   action dispatched and the snapshot it was applied to *)

Applied(action) ==
  [type |-> action.type, action |-> action, outcome |-> "applied", before |-> State]

DispatchAction(action) ==
  /\ ~navigated
  /\ Dispatch(action)
  /\ last' = Applied(action)
  /\ UNCHANGED <<restored, loadingCmds, run>>
  /\ UNCHANGED <<formVars, uiVars>>

\* a restored store holding a list a previous session persisted, after
\* `failures` writes of this session have thrown
ReducerStart(failures) ==
  /\ items \in OwnLists
  /\ isOpen \in BOOLEAN
  /\ isLoading = FALSE
  /\ storage = Stringify(items)
  /\ lastWrite = "ok"
  /\ writeFailures = failures
  /\ restored = TRUE
  /\ loadingCmds = 0
  /\ last = Applied(Action("INIT"))
  /\ run = NoRun
  /\ FormInit
  /\ UiInit

\* the actions dispatched for a set of products and their keys
ReducerSteps(products) ==
  \/ \E p \in products, q \in InputQtys :
       DispatchAction([Action("ADD_ITEM") EXCEPT !.product = p, !.quantity = q])
  \/ \E p \in products :
       DispatchAction([Action("REMOVE_ITEM") EXCEPT !.itemKey = generateItemKey(p)])
  \/ \E p \in products, q \in InputQtys :
       DispatchAction([Action("UPDATE_QUANTITY") EXCEPT
                         !.itemKey = generateItemKey(p), !.quantity = q])
  \/ DispatchAction(Action("CLEAR_CART"))
  \/ \E t \in {"OPEN_CART", "CLOSE_CART", "TOGGLE_CART"} : DispatchAction(Action(t))

\* every write succeeds: the failing writes of the session are behind it
ReducerInit == ReducerStart(MaxWriteFailures)

ReducerNext == ReducerSteps(Products)

ReducerSpec == ReducerInit /\ [][ReducerNext]_vars

\* writes may throw
FailingWriteProducts == {ProdA, ProdAB}

FailingWriteInit == ReducerStart(0)

FailingWriteNext == ReducerSteps(FailingWriteProducts)

FailingWriteSpec == FailingWriteInit /\ [][FailingWriteNext]_vars

TypeOK ==
  /\ isOpen \in BOOLEAN
  /\ isLoading \in BOOLEAN
  /\ restored \in BOOLEAN

----------------------------------------------------------------------------
(* The provider re-rendered with another storageKey prop *)

\* both effects list storageKey among their dependencies, so both run again
\* after the render that carries the new key: the mount effect reads the value
\* under the new key and dispatches, the persist effect writes the list of
\* that render under the new key, and once the dispatch has been applied the
\* persist effect runs again if the list or isLoading changed
ChangeStorageKey ==
  /\ restored
  /\ ~navigated
  /\ \E readOk \in BOOLEAN :
       LET action == HydrateEffect(otherStorage, readOk)
           s == cartReducer(State, action)
           rerun == action.type \in NewItemsRef \/ s.isLoading # isLoading
       IN \E o1 \in PersistEffect(State, otherStorage) :
            \E o2 \in (IF rerun THEN PersistEffect(s, o1.storage) ELSE {o1}) :
              LET thrown == Failed(o1) + (IF rerun THEN Failed(o2) ELSE 0) IN
              /\ writeFailures + thrown <= MaxWriteFailures
              /\ writeFailures' = writeFailures + thrown
              /\ items' = s.items
              /\ isOpen' = s.isOpen
              /\ isLoading' = s.isLoading
              /\ storage' = o2.storage
              /\ lastWrite' = o2.lastWrite
              /\ otherStorage' = storage
              /\ last' = [type |-> action.type, outcome |-> "key-changed"]
              /\ run' = IF action.type = "HYDRATE" THEN NoRun ELSE run
  /\ UNCHANGED <<restored, loadingCmds, selectorQty>>
  /\ UNCHANGED formVars

\* a list is stored under the second key, or nothing is
KeyInit ==
  /\ StoreInit
  /\ otherStorage \in {Absent, Garbage, Stringify(<<Line(ProdAB, 1)>>)}
  /\ selectorQty = 1

KeyNext ==
  \/ \E p \in CheckoutProducts : AddItem(p, DefaultQty)
  \/ \E k \in ItemKeys : RemoveItem(k)
  \/ Restore
  \/ ChangeStorageKey

KeySpec == KeyInit /\ [][KeyNext]_vars

----------------------------------------------------------------------------
(* The pricing functions and the OrderSummary totals over priced lists *)

MaxPricedQty == 3

\* prices of 0.00, 0.01, 29.99, 49.99 and 50.00
Prices == {0, 100, 299900, 499900, 500000}

PricedProduct(id, price) == [id |-> id, price |-> price, variant |-> NoVariant]

PricedLines(id) ==
  {Line(PricedProduct(id, p), q) : p \in Prices, q \in 1..MaxPricedQty}

PricedLists ==
  {<<>>} \cup {<<l>> : l \in PricedLines(<<"a">>)}
         \cup {<<l1, l2>> : l1 \in PricedLines(<<"a">>), l2 \in PricedLines(<<"b">>)}

\* an optional numeric prop: left undefined, or supplied
Undefined == [given |-> FALSE, value |-> 0]
Supplied(v) == [given |-> TRUE, value |-> v]

\* a || b: a supplied 0 is falsy and gives way to b
CoalesceFalsy(a, b) == IF a.given /\ a.value # 0 THEN a.value ELSE b

\* a ?? b
Coalesce(a, b) == IF a.given THEN a.value ELSE b

\* the totals memo of OrderSummary
OrderSummaryTotals(its, customShipping, customTax, discount) ==
  LET calculated == calculateTotals(its) IN
  [subtotal |-> calculated.subtotal,
   shippingCost |-> Coalesce(customShipping, calculated.shippingCost),
   tax |-> Coalesce(customTax, calculated.tax),
   total |-> calculated.subtotal
               + Coalesce(customShipping, calculated.shippingCost)
               + Coalesce(customTax, calculated.tax)
               - discount,
   discount |-> discount]

\* props passed to OrderSummary; discount defaults to 0
Overrides == {Undefined, Supplied(0), Supplied(99900)}
Discounts == {0, 100000, 10000000}

PricingInit ==
  /\ items \in PricedLists
  /\ isOpen = FALSE
  /\ isLoading = FALSE
  /\ storage = Stringify(items)
  /\ lastWrite = "ok"
  /\ writeFailures = 0
  /\ restored = TRUE
  /\ loadingCmds = 0
  /\ last = Event("INIT")
  /\ run = NoRun
  /\ FormInit
  /\ UiInit

\* a consumer computes calculateTotals(items)
ComputeTotals ==
  /\ last' = [type |-> "TOTALS", outcome |-> calculateTotals(items)]
  /\ UNCHANGED <<items, isOpen, isLoading, storage, lastWrite, writeFailures,
                 restored, loadingCmds, run>>
  /\ UNCHANGED <<formVars, uiVars>>

\* OrderSummary rendered with the given props
RenderOrderSummary(customShipping, customTax, discount) ==
  /\ last' = [type |-> "SUMMARY",
              action |-> [customShipping |-> customShipping, customTax |-> customTax,
                          discount |-> discount],
              outcome |-> OrderSummaryTotals(items, customShipping, customTax, discount)]
  /\ UNCHANGED <<items, isOpen, isLoading, storage, lastWrite, writeFailures,
                 restored, loadingCmds, run>>
  /\ UNCHANGED <<formVars, uiVars>>

PricingNext ==
  \/ ComputeTotals
  \/ \E cs \in Overrides, ct \in Overrides, d \in Discounts : RenderOrderSummary(cs, ct, d)

PricingSpec == PricingInit /\ [][PricingNext]_vars

----------------------------------------------------------------------------
(* The store driven through the dispatch of the context, including
   SET_LOADING and an action of no known type *)

FrameNext ==
  \/ ReducerSteps(CheckoutProducts)
  \/ \E b \in BOOLEAN : DispatchAction([Action("SET_LOADING") EXCEPT !.flag = b])
  \/ DispatchAction(Action("UNKNOWN"))

FrameSpec == ReducerInit /\ [][FrameNext]_vars

----------------------------------------------------------------------------
(* A session that finds, under its key, JSON arrays no session of the store
   wrote *)

\* a line with quantity 0, two lines with one key, a line whose itemKey is
\* not the key of its product
ForeignLists ==
  {<<[product |-> ProdA, quantity |-> 0, itemKey |-> generateItemKey(ProdA)]>>,
   <<Line(ProdA, 1), Line(ProdA, 1)>>,
   <<[product |-> ProdA, quantity |-> 1, itemKey |-> <<"x">>]>>}

ForeignStored == {Garbage} \cup {Stringify(l) : l \in ForeignLists}

ForeignInit ==
  /\ items = InitialState.items
  /\ isOpen = InitialState.isOpen
  /\ isLoading = InitialState.isLoading
  /\ storage \in ForeignStored
  /\ lastWrite = "none"
  /\ writeFailures = 0
  /\ restored = FALSE
  /\ loadingCmds = 0
  /\ last = Event("INIT")
  /\ run = NoRun
  /\ FormInit
  /\ UiInit

ForeignNext ==
  \/ \E p \in Products : AddItem(p, DefaultQty)
  \/ \E k \in ItemKeys : RemoveItem(k)
  \/ \E k \in ItemKeys, q \in 1..MaxQty : UpdateQuantity(k, q)
  \/ Restore

ForeignSpec == ForeignInit /\ [][ForeignNext]_vars

----------------------------------------------------------------------------
(* The shipped controls: CartItem (increment, decrement, quantity input,
   remove) and AddToCartButton with its quantity selector *)

DigitValue(c) ==
  CASE c = "0" -> 0 [] c = "1" -> 1 [] c = "2" -> 2 [] c = "3" -> 3 [] c = "4" -> 4
    [] c = "5" -> 5 [] c = "6" -> 6 [] c = "7" -> 7 [] c = "8" -> 8 [] c = "9" -> 9

\* the number written by the longest prefix of digits of text
RECURSIVE DigitPrefix(_, _)
DigitPrefix(text, acc) ==
  IF text = <<>> \/ Head(text) \notin Digits THEN acc
  ELSE DigitPrefix(Tail(text), acc * 10 + DigitValue(Head(text)))

\* parseInt(text, 10): leading white space, an optional sign, then the longest
\* prefix of digits; NaN when there is no digit
parseInt(text) ==
  LET t == TrimStart(text)
      signed == t # <<>> /\ Head(t) \in {"+", "-"}
      body == IF signed THEN Tail(t) ELSE t
  IN IF body = <<>> \/ Head(body) \notin Digits
       THEN [value |-> 0, isNaN |-> TRUE]
       ELSE [value |-> IF signed /\ Head(t) = "-" THEN 0 - DigitPrefix(body, 0)
                       ELSE DigitPrefix(body, 0),
             isNaN |-> FALSE]

\* texts the quantity input hands to its change handler
TypedTexts ==
  {<<>>, <<"0">>, <<"2">>, <<"-", "1">>, <<"2", ".", "5">>, <<"1", "e", "3">>, <<"a">>}

\* a control used on the line with the given key: the handler's outcome and
\* the snapshot it found
UiEvent(type, itemKey, text, outcome) ==
  [type |-> type,
   action |-> [Action(type) EXCEPT !.itemKey = itemKey, !.payload = text],
   outcome |-> outcome,
   before |-> State]

\* a handler that returns without dispatching
Ignored ==
  UNCHANGED <<items, isOpen, isLoading, storage, lastWrite, writeFailures>>

handleIncrement(i) ==
  /\ i \in 1..Len(items)
  /\ Command
  /\ Dispatch([Action("UPDATE_QUANTITY") EXCEPT
                 !.itemKey = items[i].itemKey, !.quantity = items[i].quantity + 1])
  /\ last' = UiEvent("INCREMENT", items[i].itemKey, <<>>, "dispatched")
  /\ run' = NoRun

handleDecrement(i) ==
  /\ i \in 1..Len(items)
  /\ Command
  /\ IF items[i].quantity > 1
       THEN /\ Dispatch([Action("UPDATE_QUANTITY") EXCEPT
                           !.itemKey = items[i].itemKey,
                           !.quantity = items[i].quantity - 1])
            /\ last' = UiEvent("DECREMENT", items[i].itemKey, <<>>, "dispatched")
       ELSE /\ Ignored
            /\ last' = UiEvent("DECREMENT", items[i].itemKey, <<>>, "ignored")
  /\ run' = NoRun

handleRemove(i) ==
  /\ i \in 1..Len(items)
  /\ Command
  /\ Dispatch([Action("REMOVE_ITEM") EXCEPT !.itemKey = items[i].itemKey])
  /\ last' = UiEvent("REMOVE", items[i].itemKey, <<>>, "dispatched")
  /\ run' = NoRun

\* a change handler without the value > 0 test
handleQuantityChangeAnyNumber(i, text) ==
  LET value == parseInt(text) IN
  /\ i \in 1..Len(items)
  /\ Command
  /\ IF ~value.isNaN
       THEN /\ Dispatch([Action("UPDATE_QUANTITY") EXCEPT
                           !.itemKey = items[i].itemKey, !.quantity = value.value])
            /\ last' = UiEvent("QUANTITY_INPUT", items[i].itemKey, text, "dispatched")
       ELSE /\ Ignored
            /\ last' = UiEvent("QUANTITY_INPUT", items[i].itemKey, text, "ignored")
  /\ run' = NoRun

handleQuantityChange(i, text) ==
  LET value == parseInt(text) IN
  /\ i \in 1..Len(items)
  /\ Command
  /\ IF ~value.isNaN /\ value.value > 0
       THEN /\ Dispatch([Action("UPDATE_QUANTITY") EXCEPT
                           !.itemKey = items[i].itemKey, !.quantity = value.value])
            /\ last' = UiEvent("QUANTITY_INPUT", items[i].itemKey, text, "dispatched")
       ELSE /\ Ignored
            /\ last' = UiEvent("QUANTITY_INPUT", items[i].itemKey, text, "ignored")
  /\ run' = NoRun

\* a selector event: only the button's quantity state changes
SelectorEvent(type) ==
  /\ ~navigated
  /\ last' = UiEvent(type, <<>>, <<>>, "selected")
  /\ UNCHANGED <<items, isOpen, isLoading, storage, lastWrite, writeFailures,
                 restored, loadingCmds, run>>
  /\ UNCHANGED <<formVars, otherStorage>>

incrementQuantity ==
  /\ selectorQty < MaxQty
  /\ selectorQty' = selectorQty + 1
  /\ SelectorEvent("SELECT_MORE")

\* Math.max(1, q - 1)
decrementQuantity ==
  /\ selectorQty' = IF selectorQty - 1 > 1 THEN selectorQty - 1 ELSE 1
  /\ SelectorEvent("SELECT_FEWER")

\* addItem(product, quantity) and openCart() in one handler: both actions are
\* reduced before the render, and the persist effect runs once
handleAddToCart(product) ==
  LET add == [Action("ADD_ITEM") EXCEPT !.product = product, !.quantity = selectorQty]
      s == cartReducer(cartReducer(State, add), Action("OPEN_CART"))
  IN /\ Command
     /\ \A i \in 1..Len(s.items) : QtyInRange(s.items[i].quantity)
     /\ items' = s.items
     /\ isOpen' = s.isOpen
     /\ isLoading' = s.isLoading
     /\ \E o \in PersistEffect(s, storage) :
          /\ writeFailures + Failed(o) <= MaxWriteFailures
          /\ storage' = o.storage
          /\ lastWrite' = o.lastWrite
          /\ writeFailures' = writeFailures + Failed(o)
     /\ last' = UiEvent("ADD_TO_CART", generateItemKey(product), <<>>, "dispatched")
     /\ run' = NoRun

UiNext ==
  \/ \E i \in 1..Len(items) : handleIncrement(i)
  \/ \E i \in 1..Len(items) : handleDecrement(i)
  \/ \E i \in 1..Len(items) : handleRemove(i)
  \/ \E i \in 1..Len(items), text \in TypedTexts : handleQuantityChange(i, text)
  \/ incrementQuantity
  \/ decrementQuantity
  \/ \E p \in FailingWriteProducts : handleAddToCart(p)

UiSpec == ReducerInit /\ [][UiNext]_vars

----------------------------------------------------------------------------
(* Fairness: React runs the mount effect after the first render *)

FairSpec == Spec /\ WF_vars(Restore)

----------------------------------------------------------------------------
(* Properties *)

StoredLines == IF storage.kind = "array" THEN Parse(storage) ELSE <<>>

\* C1: every line kept in the cart or written to storage has quantity >= 1
QuantityAtLeastOne ==
  /\ \A i \in 1..Len(items) : items[i].quantity >= 1
  /\ \A i \in 1..Len(StoredLines) : StoredLines[i].quantity >= 1

\* C2: no two lines of the cart have the same item key
UniqueItemKeys ==
  \A i, j \in 1..Len(items) : i # j => items[i].itemKey # items[j].itemKey

HydratedThenMerged ==
  /\ restored
  /\ last.type = "COMMAND"
  /\ lastWrite = "ok"
  /\ run.active /\ run.calls = 2
  /\ Len(items) = 2
  /\ items[1].itemKey # generateItemKey(run.product)
  /\ items[2].itemKey = generateItemKey(run.product)
  /\ items[2].quantity = 2

\* C3: after a run of AddItem calls carrying one product, begun on a cart
\* without its key, the cart has exactly one line for the key and its
\* quantity is the sum of the quantities added
RunKeyLines == {i \in 1..Len(items) : items[i].itemKey = generateItemKey(run.product)}

SameProductAddsSum ==
  run.active =>
    /\ Cardinality(RunKeyLines) = 1
    /\ \A i \in RunKeyLines : items[i].quantity = run.sum /\ items[i].product = run.product

RepeatedAdds ==
  /\ run.active
  /\ run.calls = 2
  /\ run.sum = 2
  /\ Len(items) = 2

\* C4: AddItem with a missing quantity or a quantity <= 0 acts as AddItem
\* with quantity 1
AddItemDefaultsToOne ==
  [][\A p \in Products, a \in QtyArgs :
       (AddItem(p, a) /\ (~a.given \/ a.value <= 0))
         => items' = ReduceAddItem(State, p, 1).items]_vars

\* C5: a step that leaves the store loading writes nothing to storage
NoWriteWhileLoading ==
  [][isLoading' => (storage' = storage /\ lastWrite' \in {"none", "skipped"})]_vars

CommandWhileLoading ==
  /\ isLoading
  /\ loadingCmds > 0
  /\ items # <<>>
  /\ lastWrite = "skipped"
  /\ storage.kind = "array"
  /\ storage.body # <<>>

\* C6: once the persist effect has run and its write succeeded, the stored
\* value is the serialization of the in-memory line list
StoredMatchesItems ==
  lastWrite = "ok" =>
    /\ storage = Stringify(items)
    /\ Parse(storage) = items

PersistedAfterFailure ==
  /\ lastWrite = "ok"
  /\ last.type = "COMMAND"
  /\ Len(items) = 2
  /\ writeFailures = 1

\* C7: whatever the restore read yields, restore ends with isLoading false;
\* on absence, unparseable text or a failing read the line list is left as
\* it was (empty when no command preceded the restore), on a parseable list
\* Hydrate installs that list; isLoading eventually becomes false
FailedReads == {"absent", "unparseable", "readfail"}

RestoreStep ==
  /\ last'.outcome \in FailedReads =>
       /\ last'.type = "SET_LOADING"
       /\ items' = items
       /\ loadingCmds = 0 => items' = <<>>
       /\ ~isLoading'
  /\ last'.outcome = "hydrated" =>
       /\ last'.type = "HYDRATE"
       /\ items' = Parse(storage)
       /\ ~isLoading'

RestoreEnds ==
  /\ [][RestoreStep]_vars
  /\ <>(isLoading = FALSE)

RestoredFromGarbage ==
  /\ last.outcome = "unparseable"
  /\ restored
  /\ ~isLoading
  /\ items = <<>>

\* C8: isLoading is true until restore has run and, once false, stays false
LoadingOnlyDuringRestore ==
  /\ [](~restored => isLoading)
  /\ [][~isLoading => ~isLoading']_vars

CommandAfterRestore ==
  /\ restored
  /\ ~isLoading
  /\ last.type = "COMMAND"
  /\ isOpen
  /\ items # <<>>

RejectionStep ==
  last'.type = "ORDER_FAILED" =>
    /\ items' = items
    /\ last.type = "SUBMIT" => items' = pending[1].items
    /\ DOMAIN errors' = {"form"}
    /\ ~isSubmitting'
    /\ Len(items') > 0 => ~SubmitDisabled'

FormEvents == {"SUBMIT", "FORM_EDIT", "ORDER_FAILED"}

ClearStep ==
  /\ last'.type \in FormEvents => items' = items
  /\ last'.type = "ORDER_CREATED" =>
       /\ Len(pending') = Len(pending) - 1
       /\ \/ last'.outcome = "callback-threw" /\ items' = items /\ ~navigated'
          \/ last'.outcome # "callback-threw" /\ items' = <<>>
  /\ (navigated' /\ ~navigated) => (last'.type = "ORDER_CREATED" /\ items' = <<>>)

ClearOnlyAfterSuccess == [][ClearStep]_vars

ClearedThenHandedOff ==
  /\ navigated
  /\ last.type = "ORDER_CREATED"
  /\ items = <<>>
  /\ storage = Stringify(<<>>)
  /\ pending = <<>>

\* the fields of an address that are missing or malformed
RequiredFields == {"firstName", "lastName", "address1", "city", "state"}

InvalidFields(address, phoneChecked) ==
  {f \in RequiredFields : Trim(address[f]) = <<>>}
    \cup (IF Trim(address.email) = <<>> \/ ~isValidEmail(address.email)
            THEN {"email"} ELSE {})
    \cup (IF Trim(address.postalCode) = <<>>
               \/ ~isValidPostalCode(address.postalCode, address.country)
            THEN {"postalCode"} ELSE {})
    \cup (IF phoneChecked /\ address.phone # <<>> /\ ~isValidPhone(address.phone)
            THEN {"phone"} ELSE {})

ExpectedErrorKeys ==
  {"shipping." \o f : f \in InvalidFields(shipping, TRUE)}
    \cup (IF billing.sameAsShipping THEN {}
          ELSE {"billing." \o f : f \in InvalidFields(billing, FALSE)})

\* C12 as claimed: a submit with an empty cart leaves the form-level error
\* as the only error and calls no collaborator
EmptyCartSubmitStep ==
  (last'.type = "SUBMIT" /\ Len(items) = 0) =>
    /\ DOMAIN errors' = {"form"}
    /\ pending' = pending

EmptyCartSingleFormError == [][EmptyCartSubmitStep]_vars

\* C12 amended: a submit with an empty cart never calls the collaborator;
\* when the fields pass validation the form-level error is the only error,
\* otherwise the errors are the field errors and there is no form-level one
EmptyCartRejectedStep ==
  (last'.type = "SUBMIT" /\ Len(items) = 0) =>
    /\ pending' = pending
    /\ isSubmitting' = isSubmitting
    /\ items' = items
    /\ IF ExpectedErrorKeys = {}
         THEN errors' = FormError("Your cart is empty")
         ELSE DOMAIN errors' = ExpectedErrorKeys

EmptyCartRejected == [][EmptyCartRejectedStep]_vars

EmptyCartFormError ==
  /\ last.type = "SUBMIT"
  /\ items = <<>>
  /\ DOMAIN errors = {"form"}
  /\ pending = <<>>
  /\ ~isSubmitting

\* C13: a submit whose fields fail validation leaves one error per invalid
\* field under its dotted path (shipping always, billing only when not same
\* as shipping), calls no collaborator and leaves the cart alone; a
\* collaborator call is made only when no field is invalid
ValidationStep ==
  last'.type = "SUBMIT" =>
    /\ items' = items
    /\ storage' = storage
    /\ ExpectedErrorKeys # {} =>
         /\ DOMAIN errors' = ExpectedErrorKeys
         /\ \A k \in DOMAIN errors' : errors'[k] # ""
         /\ pending' = pending
         /\ isSubmitting' = isSubmitting
    /\ pending' # pending =>
         /\ ExpectedErrorKeys = {}
         /\ errors' = NoErrors

NoCallWhileInvalid == [][ValidationStep]_vars

BillingErrorsOnly ==
  /\ last.type = "SUBMIT"
  /\ items # <<>>
  /\ pending = <<>>
  /\ ~billing.sameAsShipping
  /\ "billing.email" \in DOMAIN errors
  /\ \A k \in DOMAIN errors : k \notin {"shipping." \o f : f \in AddressFields}

\* the snapshot `before` with every line of key k taken out, the other lines
\* in their order, both flags as they were
WithoutKey(before, k) ==
  [before EXCEPT !.items = SelectSeq(before.items, LAMBDA l : l.itemKey # k)]

RemoveAction(k) == [Action("REMOVE_ITEM") EXCEPT !.itemKey = k]
UpdateAction(k, q) == [Action("UPDATE_QUANTITY") EXCEPT !.itemKey = k, !.quantity = q]

\* C14: UpdateQuantity(k, q) with q <= 0 and RemoveItem(k) give the same
\* snapshot, the one without the line of key k, the other lines in the same
\* order and both flags unchanged
NonPositiveUpdateRemoves ==
  /\ (last.type = "UPDATE_QUANTITY" /\ last.action.quantity <= 0) =>
       /\ State = WithoutKey(last.before, last.action.itemKey)
       /\ State = cartReducer(last.before, RemoveAction(last.action.itemKey))
  /\ last.type = "REMOVE_ITEM" =>
       /\ State = WithoutKey(last.before, last.action.itemKey)
       /\ \A q \in InputQtys :
            q <= 0 => State = cartReducer(last.before, UpdateAction(last.action.itemKey, q))

UpdatedToZero ==
  /\ last.type = "UPDATE_QUANTITY"
  /\ last.action.quantity = 0
  /\ Len(last.before.items) = 2
  /\ last.before.items[1].itemKey = last.action.itemKey
  /\ items = <<last.before.items[2]>>
  /\ isOpen

\* C15: RemoveItem(k) on a snapshot without key k returns the same snapshot,
\* and a second RemoveItem(k) changes nothing
RemoveIdempotent ==
  last.type = "REMOVE_ITEM" =>
    LET k == last.action.itemKey IN
    /\ FindIndex(last.before.items, k) = 0 => State = last.before
    /\ cartReducer(State, RemoveAction(k)) = State

RemovedTwice ==
  /\ last.type = "REMOVE_ITEM"
  /\ FindIndex(last.before.items, last.action.itemKey) = 0
  /\ Len(items) = 1
  /\ State = last.before

\* C16: UpdateQuantity(k, q) with q > 0 sets the quantity of the line of
\* key k to q and leaves the other lines, the order, the length and both
\* flags as they were; without such a line nothing changes
PositiveUpdateSetsQuantity ==
  (last.type = "UPDATE_QUANTITY" /\ last.action.quantity > 0) =>
    LET k == last.action.itemKey
        old == last.before.items
    IN /\ Len(items) = Len(old)
       /\ \A i \in 1..Len(old) :
            items[i] = IF old[i].itemKey = k
                         THEN [old[i] EXCEPT !.quantity = last.action.quantity]
                         ELSE old[i]
       /\ isOpen = last.before.isOpen
       /\ isLoading = last.before.isLoading
       /\ FindIndex(old, k) = 0 => State = last.before

QuantityReplaced ==
  /\ last.type = "UPDATE_QUANTITY"
  /\ last.action.quantity > 0
  /\ Len(items) = 2
  /\ items[1].itemKey = last.action.itemKey
  /\ items[1].quantity # last.before.items[1].quantity
  /\ items[2] = last.before.items[2]

\* C17: AddItem of a product whose key is not in the cart appends one line
\* at the end and leaves the others as they were; AddItem of a product
\* whose key is in the cart changes only the quantity of that line
AddKeepsOrder ==
  last.type = "ADD_ITEM" =>
    LET k == generateItemKey(last.action.product)
        old == last.before.items
        index == FindIndex(old, k)
    IN /\ isOpen = last.before.isOpen
       /\ isLoading = last.before.isLoading
       /\ IF index = 0
            THEN /\ Len(items) = Len(old) + 1
                 /\ SubSeq(items, 1, Len(old)) = old
                 /\ items[Len(items)].itemKey = k
                 /\ items[Len(items)].product = last.action.product
            ELSE /\ Len(items) = Len(old)
                 /\ \A i \in 1..Len(old) :
                      items[i] = IF i = index
                                   THEN [old[i] EXCEPT !.quantity = items[i].quantity]
                                   ELSE old[i]

MergedInPlace ==
  /\ last.type = "ADD_ITEM"
  /\ Len(last.before.items) = 2
  /\ last.before.items[1].itemKey = generateItemKey(last.action.product)
  /\ Len(items) = 2
  /\ items[1].quantity > last.before.items[1].quantity
  /\ items[2] = last.before.items[2]

\* the item count and subtotal computed from the stored text itself
RECURSIVE StoredItemCount(_)
StoredItemCount(body) ==
  IF body = <<>> THEN 0 ELSE Head(body)[4] + StoredItemCount(Tail(body))

RECURSIVE StoredSubtotal(_)
StoredSubtotal(body) ==
  IF body = <<>> THEN 0 ELSE Head(body)[2] * Head(body)[4] + StoredSubtotal(Tail(body))

\* C18: Hydrate replaces the line list by the persisted list, in its order
\* and with its quantities, sets isLoading to false and leaves isOpen as it
\* was; the restored list serialises back to the stored text, and item
\* count and subtotal read after it equal those of the persisted lines
HydrateStep ==
  last'.type = "HYDRATE" =>
    /\ items' = Parse(storage)
    /\ Stringify(items') = storage
    /\ Len(items') = Len(storage.body)
    /\ ~isLoading'
    /\ isOpen' = isOpen
    /\ calculateItemCount(items') = StoredItemCount(storage.body)
    /\ calculateSubtotal(items') = StoredSubtotal(storage.body)

HydrateReplaces == [][HydrateStep]_vars

HydratedWithDrawerOpen ==
  /\ last.type = "HYDRATE"
  /\ Len(items) = 2
  /\ isOpen
  /\ ~isLoading
  /\ calculateItemCount(items) = 1 + MaxQty

CommandTypes == {"ADD_ITEM", "REMOVE_ITEM", "UPDATE_QUANTITY", "CLEAR_CART"}

\* C19: whatever the outcome of the write, the snapshot after a command is
\* what the reducer makes of the snapshot before it; a failed write leaves
\* the stored value alone and the next command starts from the snapshot in
\* memory
WriteFailureKeepsMemory ==
  last.type \in CommandTypes =>
    /\ State = cartReducer(last.before, last.action)
    /\ lastWrite \in {"ok", "failed"}
    /\ lastWrite = "ok" => storage = Stringify(items)

FailedWriteKept ==
  /\ last.type = "ADD_ITEM"
  /\ lastWrite = "failed"
  /\ writeFailures = 1
  /\ Len(items) = Len(last.before.items) + 1
  /\ StoredLines = last.before.items

\* C20: AddItem merges the product into an existing line exactly when a
\* line holds a product with the same product id and the same variant id
SameProductVariant(p, r) == p.id = r.id /\ p.variant = r.variant

KeyIdentifiesProductVariant ==
  last.type = "ADD_ITEM" =>
    LET old == last.before.items IN
    (Len(items) = Len(old))
      <=> (\E i \in 1..Len(old) : SameProductVariant(old[i].product, last.action.product))

\* C21: once the mount effect has run, no step issues HYDRATE: the line list
\* is replaced from storage only by the restore at store creation
HydrateOnlyAtCreation ==
  [][restored => ~(last'.type = "HYDRATE" /\ last' # last)]_vars

\* the sum of price x quantity over the first n lines
RECURSIVE SumOfLines(_, _)
SumOfLines(its, n) ==
  IF n = 0 THEN 0
  ELSE SumOfLines(its, n - 1) + its[n].product.price * its[n].quantity

\* C22: totals(lines) has subtotal = sum of price x quantity (0 for the empty
\* list), shipping 0 from 50.00 up and 5.99 below, tax = 8% of the subtotal
\* and total = their sum; one line of 29.99 x 3 gives 89.97, 0, 7.1976, 97.1676
TotalsAsSpecified ==
  last.type = "TOTALS" =>
    LET t == last.outcome
        sub == SumOfLines(items, Len(items))
    IN /\ \A i \in 1..Len(items) :
            items[i].product.price >= 0 /\ items[i].quantity >= 1
       /\ t.subtotal = sub
       /\ (items = <<>> => t.subtotal = 0)
       /\ t.shippingCost = IF sub >= 500000 THEN 0 ELSE 59900
       /\ 100 * t.tax = 8 * sub
       /\ t.total = t.subtotal + t.shippingCost + t.tax
       /\ (items = <<Line(PricedProduct(<<"a">>, 299900), 3)>> =>
             t = [subtotal |-> 899700, shippingCost |-> 0, tax |-> 71976,
                  total |-> 971676])

TotalsAtThreshold ==
  /\ last.type = "TOTALS"
  /\ Len(items) = 2
  /\ last.outcome.subtotal = 500000
  /\ last.outcome.shippingCost = 0
  /\ last.outcome.total = 540000

\* C23: the order summary's total is subtotal + (supplied shipping, else
\* computed) + (supplied tax, else computed) - discount; a supplied 0 is used
\* as given and the total is not clamped at zero
SummaryTotalAsSpecified ==
  last.type = "SUMMARY" =>
    LET props == last.action
        t == last.outcome
        sub == SumOfLines(items, Len(items))
        ship == IF props.customShipping.given THEN props.customShipping.value
                ELSE calculateShipping(sub)
        tax == IF props.customTax.given THEN props.customTax.value
               ELSE calculateTax(sub)
    IN /\ t.subtotal = sub
       /\ t.shippingCost = ship
       /\ t.tax = tax
       /\ t.discount = props.discount
       /\ t.total = sub + ship + tax - props.discount
       /\ (props.discount > sub + ship + tax => t.total < 0)

ZeroOverrideAndNegativeTotal ==
  /\ last.type = "SUMMARY"
  /\ last.action.customShipping = Supplied(0)
  /\ last.action.customTax = Undefined
  /\ calculateShipping(last.outcome.subtotal) > 0
  /\ last.outcome.subtotal > 0
  /\ last.outcome.shippingCost = 0
  /\ last.outcome.total < 0

\* C24: every command changes only the part of the snapshot it names:
\* CLEAR_CART empties the list and keeps both flags, OPEN/CLOSE/TOGGLE change
\* only isOpen, SET_LOADING only isLoading, ADD/REMOVE/UPDATE keep both
\* flags, and an action of no known type returns the snapshot unchanged
EachCommandChangesItsPart ==
  LET b == last.before
      a == last.action
  IN /\ last.type = "CLEAR_CART" =>
          items = <<>> /\ isOpen = b.isOpen /\ isLoading = b.isLoading
     /\ last.type = "OPEN_CART" =>
          isOpen = TRUE /\ items = b.items /\ isLoading = b.isLoading
     /\ last.type = "CLOSE_CART" =>
          isOpen = FALSE /\ items = b.items /\ isLoading = b.isLoading
     /\ last.type = "TOGGLE_CART" =>
          isOpen = ~b.isOpen /\ items = b.items /\ isLoading = b.isLoading
     /\ last.type = "SET_LOADING" =>
          isLoading = a.flag /\ items = b.items /\ isOpen = b.isOpen
     /\ last.type \in {"ADD_ITEM", "REMOVE_ITEM", "UPDATE_QUANTITY"} =>
          isOpen = b.isOpen /\ isLoading = b.isLoading
     /\ last.type = "UNKNOWN" => State = b

UnknownActionOnLoadedCart ==
  /\ last.type = "UNKNOWN"
  /\ Len(items) = 2
  /\ isOpen
  /\ isLoading
  /\ State = last.before

\* C25: the arguments of an order-creation call are consistent with the
\* state at submission: the lines are the cart's lines, the totals are the
\* totals of those lines, and the billing address is the shipping address
\* with the flag set when same-as-shipping is set, the billing fields as
\* entered otherwise
CallArgumentsMatchState ==
  (last.type = "SUBMIT" /\ DOMAIN errors = {} /\ Len(pending) > 0) =>
    LET call == pending[Len(pending)]
        sub == SumOfLines(items, Len(items))
        ship == IF sub >= FreeShippingThreshold THEN 0 ELSE FlatShippingFee
        tax == (sub * TaxPercent) \div 100
    IN /\ call.items = items
       /\ call.totals.subtotal = sub
       /\ call.totals.shippingCost = ship
       /\ call.totals.tax = tax
       /\ call.totals.total = sub + ship + tax
       /\ call.formData.shipping = shipping
       /\ billing.sameAsShipping =>
            /\ call.formData.billing.sameAsShipping
            /\ \A f \in AddressFields : call.formData.billing[f] = shipping[f]
       /\ ~billing.sameAsShipping => call.formData.billing = billing

SubmittedWithHiddenBilling ==
  /\ last.type = "SUBMIT"
  /\ DOMAIN errors = {}
  /\ Len(pending) = 1
  /\ Len(items) = 2
  /\ billing.sameAsShipping
  /\ billing.postalCode # shipping.postalCode
  /\ pending[1].formData.billing.postalCode = shipping.postalCode
  /\ pending[1].totals.subtotal = 899700

\* C26: a step that settles a submission with a form-level error leaves the
\* cart lines as they were and the form ready to be submitted again
FailedSubmissionKeepsCart ==
  [][(Len(pending') < Len(pending) /\ "form" \in DOMAIN errors') =>
       (items' = items /\ ~isSubmitting')]_vars

\* C27: the lines removed by the CLEAR_CART that follows a resolved
\* order-creation call are exactly the lines passed to that call
ClearedLinesAreOrdered ==
  [][(last'.type = "ORDER_CREATED" /\ last'.outcome # "callback-threw"
        /\ Len(pending') < Len(pending)) =>
       \E i \in 1..Len(pending) :
         pending' = RemoveAt(pending, i) /\ pending[i].items = items]_vars

\* C28: every line in the cart when the mount effect runs is still in the
\* cart once it has run
LinesAddedWhileLoadingKept ==
  [][(~restored /\ restored') =>
       \A i \in 1..Len(items) :
         \E j \in 1..Len(items') : items'[j].itemKey = items[i].itemKey]_vars

\* C29: when the mount effect has run, the line list is well formed: every
\* quantity is at least 1, every item key is the key of the line's product,
\* and no two lines have the same key
RestoredListWellFormed ==
  (restored /\ last.type \in {"HYDRATE", "SET_LOADING"}) =>
    /\ \A i \in 1..Len(items) :
         /\ items[i].quantity >= 1
         /\ items[i].itemKey = generateItemKey(items[i].product)
    /\ \A i, j \in 1..Len(items) : i # j => items[i].itemKey # items[j].itemKey

\* a text that writes a positive integer: digits only, not all of them 0
IsPositiveInteger(text) ==
  /\ text # <<>>
  /\ \A k \in 1..Len(text) : text[k] \in Digits
  /\ \E k \in 1..Len(text) : text[k] # "0"

\* a text that begins, after an optional +, with digits that are not all 0
HasPositivePrefix(text) ==
  LET t == IF text # <<>> /\ Head(text) = "+" THEN Tail(text) ELSE text IN
  \E n \in 1..Len(t) : (\A k \in 1..n : t[k] \in Digits) /\ t[n] # "0"

\* C30 as stated: a typed quantity that is not a positive integer is ignored
TypedNonIntegerIgnored ==
  (last.type = "QUANTITY_INPUT" /\ ~IsPositiveInteger(last.action.payload)) =>
    State = last.before

\* C30: with the shipped controls every line's quantity and the add-button
\* quantity stay at least 1: a decrement at quantity 1 and a typed text
\* without a positive integer prefix change nothing, and a typed text with
\* one sets the quantity to that prefix
UiQuantitiesStayPositive ==
  /\ \A i \in 1..Len(items) : items[i].quantity >= 1
  /\ selectorQty >= 1
  /\ last.outcome = "ignored" => State = last.before
  /\ last.type = "DECREMENT" =>
       \A i \in 1..Len(last.before.items) :
         (last.before.items[i].itemKey = last.action.itemKey
            /\ last.before.items[i].quantity = 1) => State = last.before
  /\ last.type = "QUANTITY_INPUT" =>
       IF HasPositivePrefix(last.action.payload)
         THEN \E i \in 1..Len(items) :
                /\ items[i].itemKey = last.action.itemKey
                /\ items[i].quantity >= 1
                /\ last.action.payload = <<"2", ".", "5">> => items[i].quantity = 2
                /\ last.action.payload = <<"1", "e", "3">> => items[i].quantity = 1
         ELSE State = last.before

TypedFractionTruncated ==
  /\ last.type = "QUANTITY_INPUT"
  /\ last.action.payload = <<"2", ".", "5">>
  /\ Len(items) = 1
  /\ last.before.items[1].quantity = 1
  /\ items[1].quantity = 2
  /\ selectorQty = MaxQty

====
